---- MODULE Spec2Model ----
(***************************************************************************)
(* State-machine model of the ChangeSet aggregate of                       *)
(* exchange_calendars_extensions/api/changes.py: the day-properties and    *)
(* date-metadata validation, the canonicalisation pass, and the mutating   *)
(* operations add_day, remove_day, set_tags, clear_day and clear.          *)
(*                                                                         *)
(* Encoding of the Python values:                                          *)
(*   - a pd.Timestamp is a pair <<day, hour>> (tz-naive), ordered          *)
(*     lexicographically;                                                  *)
(*   - an optional value is <<>> (None / absent) or <<x>>;                 *)
(*   - a dict / OrderedDict is the sequence of its entries                 *)
(*     [date |-> k, value |-> v] in iteration order;                       *)
(*   - a tag string is a number 1..MaxTag (lexicographic order of the      *)
(*     strings); 0 stands for a tag element that is an int, not a str;     *)
(*   - a comment string is the sequence of its characters.                 *)
(***************************************************************************)
EXTENDS Integers, Sequences, FiniteSets, TLC

VARIABLES add, remove, meta, last, target, todo

vars == <<add, remove, meta, last, target, todo>>

\* ---------------------------------------------------------------- bounds
\* Calendar days are 0..MaxDay.
MaxDay == 1
\* Tag strings are 1..MaxTag.
MaxTag == 2
\* Operations that would make len(changeset) exceed MaxLen are not explored.
MaxLen == 3
\* Number of entries of the mappings a changeset is constructed from.
MaxInit == 2

\* ------------------------------------------------------- optional values
None == <<>>

Some(x) == <<x>>

\* ------------------------------------------------------------ timestamps
Days == 0..MaxDay

\* Ordering of two tz-naive pd.Timestamp values.
Lt(a, b) == a[1] < b[1] \/ (a[1] = b[1] /\ a[2] < b[2])

\* The calendar day a timestamp falls on.
DayOf(ts) == ts[1]

\* Date-like inputs: an ISO date string, a string that is no date, a
\* datetime.date, and a pd.Timestamp at noon (hour 12) of day 0; hour 0 is
\* midnight.
DateInputs ==
    {[kind |-> "str", day |-> d, hour |-> 0] : d \in Days}
    \cup {[kind |-> "date", day |-> d, hour |-> 0] : d \in Days}
    \cup {[kind |-> "ts", day |-> 0, hour |-> 12]}
    \cup {[kind |-> "bad", day |-> 0, hour |-> 0]}

\* _to_timestamp: a pd.Timestamp is returned as it is; anything else goes
\* through pd.Timestamp(value), which keeps the time of day of the value and
\* raises ValueError for a string that is no date.
_to_timestamp(value) ==
    IF value.kind = "ts"
    THEN [ok |-> TRUE, ts |-> <<value.day, value.hour>>]
    ELSE IF value.kind = "bad"
         THEN [ok |-> FALSE, ts |-> <<0, 0>>]
         ELSE IF value.kind = "date"
              THEN [ok |-> TRUE, ts |-> <<value.day, 0>>]
              ELSE [ok |-> TRUE, ts |-> <<value.day, value.hour>>]

\* ------------------------------------------------------------ day types
DayType ==
    {"holiday", "special_open", "special_close", "monthly_expiry",
     "quarterly_expiry"}

\* The Literal of DayProps.type.
DayPropsTypes == {"holiday", "monthly_expiry", "quarterly_expiry"}

\* The Literal of DayPropsWithTime.type.
DayPropsWithTimeTypes == {"special_open", "special_close"}

\* Time inputs: a dt.time, or a string of the form HH:MM, HH:MM:SS or
\* neither. A time is <<hour, minute, second>>.
TimeInputs ==
    {[kind |-> "time", form |-> "", t |-> <<10, 0, 0>>],
     [kind |-> "str", form |-> "%H:%M", t |-> <<10, 0, 0>>],
     [kind |-> "str", form |-> "%H:%M:%S", t |-> <<16, 0, 0>>],
     [kind |-> "str", form |-> "other", t |-> <<0, 0, 0>>]}

\* _to_time: a dt.time is returned as it is; a string is parsed with
\* '%H:%M', then with '%H:%M:%S'; ValueError when neither format matches.
_to_time(value) ==
    IF value.kind = "time"
    THEN [ok |-> TRUE, time |-> value.t]
    ELSE IF value.form = "%H:%M"
         THEN [ok |-> TRUE, time |-> <<value.t[1], value.t[2], 0>>]
         ELSE IF value.form = "%H:%M:%S"
              THEN [ok |-> TRUE, time |-> value.t]
              ELSE [ok |-> FALSE, time |-> <<0, 0, 0>>]

\* A day-properties input: type, optional name, optional time, and whether
\* the mapping carries a key that is no field.
PropsInput(type, name, time, extra) ==
    [type |-> type, name |-> name, time |-> time, extra |-> extra]

ValidPropsInputs ==
    {PropsInput("holiday", Some("Holiday"), None, FALSE),
     PropsInput("special_open", Some("Special Open"),
                Some([kind |-> "str", form |-> "%H:%M", t |-> <<10, 0, 0>>]), FALSE),
     PropsInput("special_close", Some("Special Close"),
                Some([kind |-> "str", form |-> "%H:%M:%S", t |-> <<16, 0, 0>>]), FALSE),
     PropsInput("monthly_expiry", Some("Monthly Expiry"), None, FALSE),
     PropsInput("quarterly_expiry", Some("Quarterly Expiry"), None, FALSE)}

InvalidPropsInputs ==
    {PropsInput("foo", Some("Holiday"), None, FALSE),
     PropsInput("holiday", None, None, FALSE),
     PropsInput("holiday", Some("Holiday"),
                Some([kind |-> "str", form |-> "%H:%M", t |-> <<10, 0, 0>>]), FALSE),
     PropsInput("monthly_expiry", Some("Monthly Expiry"), None, TRUE),
     PropsInput("special_open", Some("Special Open"), None, FALSE),
     PropsInput("special_close", Some("Special Close"),
                Some([kind |-> "str", form |-> "other", t |-> <<0, 0, 0>>]), FALSE)}

PropsInputs == ValidPropsInputs \cup InvalidPropsInputs

\* DayProps: a type of its Literal, a name, and no other key (extra='forbid'),
\* so no time.
DayProps(p) ==
    IF p.type \in DayPropsTypes /\ p.name # None /\ p.time = None /\ ~p.extra
    THEN [ok |-> TRUE,
          props |-> [type |-> p.type, name |-> p.name[1], time |-> None]]
    ELSE [ok |-> FALSE, props |-> [type |-> p.type, name |-> "", time |-> None]]

\* DayPropsWithTime: a type of its Literal, a name and a time that _to_time
\* converts, and no other key.
DayPropsWithTime(p) ==
    IF p.type \in DayPropsWithTimeTypes /\ p.name # None /\ p.time # None
       /\ ~p.extra /\ _to_time(p.time[1]).ok
    THEN [ok |-> TRUE,
          props |-> [type |-> p.type, name |-> p.name[1],
                     time |-> Some(_to_time(p.time[1]).time)]]
    ELSE [ok |-> FALSE, props |-> [type |-> p.type, name |-> "", time |-> None]]

\* DayPropsLike: the union of the two models, discriminated by 'type'.
DayPropsLike(p) ==
    IF p.type \in DayPropsTypes
    THEN DayProps(p)
    ELSE IF p.type \in DayPropsWithTimeTypes
         THEN DayPropsWithTime(p)
         ELSE [ok |-> FALSE, props |-> [type |-> p.type, name |-> "", time |-> None]]

\* ------------------------------------------------------------- DateMeta
\* Tags inputs: None, a collection (its elements in iteration order), or a
\* value that is no collection (a float).
TagsInput(kind, elems) == [kind |-> kind, elems |-> elems]

TagsInputs ==
    {TagsInput("none", <<>>),
     TagsInput("coll", <<>>),
     TagsInput("coll", <<1>>),
     TagsInput("coll", <<MaxTag, 1, MaxTag>>),
     TagsInput("coll", <<1, 0>>),
     TagsInput("float", <<>>)}

\* Tags = Union[Collection[str], None], validated with
\* arbitrary_types_allowed: the value is None or an instance of Collection.
Tags(t) == t.kind # "float"

\* The elements of a sequence.
Range(s) == {s[i] : i \in DOMAIN s}

\* sorted(set(...)) of numbers.
RECURSIVE SortedSet(_)
SortedSet(S) ==
    IF S = {}
    THEN <<>>
    ELSE LET m == CHOOSE x \in S : \A y \in S : x <= y
         IN  <<m>> \o SortedSet(S \ {m})

\* sorted() raises TypeError when it has to compare a str with an int.
Sortable(S) == ~(0 \in S /\ S # {0})

\* str.strip() on a sequence of characters.
RECURSIVE LStrip(_)
LStrip(s) == IF s # <<>> /\ Head(s) = " " THEN LStrip(Tail(s)) ELSE s

RECURSIVE RStrip(_)
RStrip(s) ==
    IF s # <<>> /\ s[Len(s)] = " " THEN RStrip(SubSeq(s, 1, Len(s) - 1)) ELSE s

Strip(s) == RStrip(LStrip(s))

\* DateMeta._canonicalize that keeps the tags as they were given, neither
\* sorted nor de-duplicated.
DateMeta_canonicalize_unsorted(tags, comment) ==
    [ok |-> Sortable(Range(tags.elems)), error |-> "TypeError",
     meta |-> [tags |-> tags.elems,
               comment |-> IF comment = None \/ Strip(comment[1]) = <<>>
                           THEN None
                           ELSE Some(Strip(comment[1]))]]

\* DateMeta._canonicalize that keeps the comment as it was given, not stripped.
DateMeta_canonicalize_unstripped(tags, comment) ==
    IF ~Sortable(Range(tags.elems))
    THEN [ok |-> FALSE, error |-> "TypeError",
          meta |-> [tags |-> <<>>, comment |-> None]]
    ELSE [ok |-> TRUE, error |-> "",
          meta |-> [tags |-> SortedSet(Range(tags.elems)), comment |-> comment]]

\* DateMeta._canonicalize on the field values tags (a tags input that passed
\* the field validation) and comment (None or a string): tags become
\* sorted(set(tags or [])), the comment is stripped and None when empty.
DateMeta_canonicalize(tags, comment) ==
    IF ~Sortable(Range(tags.elems))
    THEN [ok |-> FALSE, error |-> "TypeError",
          meta |-> [tags |-> <<>>, comment |-> None]]
    ELSE [ok |-> TRUE, error |-> "",
          meta |-> [tags |-> SortedSet(Range(tags.elems)),
                    comment |-> IF comment = None \/ Strip(comment[1]) = <<>>
                                THEN None
                                ELSE Some(Strip(comment[1]))]]

\* DateMeta(**value): field validation, then _canonicalize.
DateMeta(value) ==
    IF ~Tags(value.tags)
    THEN [ok |-> FALSE, error |-> "ValidationError",
          meta |-> [tags |-> <<>>, comment |-> None]]
    ELSE DateMeta_canonicalize(value.tags, value.comment)

\* DateMeta.__len__
DateMeta_len(m) == Len(m.tags) + (IF m.comment # None THEN 1 ELSE 0)

\* ---------------------------------------------------------------- dicts
Keys(d) == {d[i].date : i \in DOMAIN d}

\* d[k]
Get(d, k) == d[CHOOSE i \in DOMAIN d : d[i].date = k].value

\* d[k] = v: an existing key keeps its place, a new key goes last.
DictSet(d, k, v) ==
    IF k \in Keys(d)
    THEN [i \in DOMAIN d |->
            IF d[i].date = k THEN [date |-> k, value |-> v] ELSE d[i]]
    ELSE Append(d, [date |-> k, value |-> v])

TestKeyIsNot(e, k) == e.date # k

\* d.pop(k, None) / del d[k]
DictPop(d, k) == SelectSeq(d, LAMBDA e : TestKeyIsNot(e, k))

\* sorted() of a set of timestamps.
RECURSIVE SortedDates(_)
SortedDates(S) ==
    IF S = {}
    THEN <<>>
    ELSE LET m == CHOOSE x \in S : \A y \in S : ~Lt(y, x)
         IN  <<m>> \o SortedDates(S \ {m})

\* OrderedDict(sorted(d.items(), key=lambda i: i[0]))
SortedDict(d) ==
    LET ks == SortedDates(Keys(d))
    IN  [i \in DOMAIN ks |-> [date |-> ks[i], value |-> Get(d, ks[i])]]

\* ------------------------------------------------------------- ChangeSet
ChangeSet(a, r, m) == [add |-> a, remove |-> r, meta |-> m]

\* The changeset object the operations act on.
self == ChangeSet(add, remove, meta)

\* _canonicalize with remove = sorted(self.remove), the set() left out.
_canonicalize_without_set(cs) ==
    ChangeSet(SortedDict(cs.add), SortSeq(cs.remove, Lt), SortedDict(cs.meta))

\* _canonicalize that leaves add in insertion order.
_canonicalize_without_add_sort(cs) ==
    ChangeSet(cs.add, SortedDates(Range(cs.remove)), SortedDict(cs.meta))

\* ChangeSet._canonicalize: add sorted by date, remove sorted and
\* de-duplicated, meta sorted by date.
_canonicalize(cs) ==
    ChangeSet(SortedDict(cs.add), SortedDates(Range(cs.remove)), SortedDict(cs.meta))

\* __len__ that does not count meta.
__len__without_meta(cs) == Len(cs.add) + Len(cs.remove)

\* ChangeSet.__len__
__len__(cs) == Len(cs.add) + Len(cs.remove) + Len(cs.meta)

\* ChangeSet.__eq__: add, remove and meta are OrderedDict, list and
\* OrderedDict, whose == compares the entries in iteration order.
__eq__(cs, other) ==
    cs.add = other.add /\ cs.remove = other.remove /\ cs.meta = other.meta

Outcome(cs, result) == [cs |-> cs, result |-> result]

\* add_day without the test for a date that is in add already.
add_day_overwrites(cs, date, props) ==
    LET d == _to_timestamp(date)
        p == DayPropsLike(props)
    IN  IF ~d.ok \/ ~p.ok
        THEN Outcome(cs, "ValidationError")
        ELSE Outcome(_canonicalize([cs EXCEPT !.add = DictSet(@, d.ts, p.props)]),
                     "ok")

\* add_day that also takes the date out of remove.
add_day_unremoves(cs, date, props) ==
    LET d == _to_timestamp(date)
        p == DayPropsLike(props)
    IN  IF ~d.ok \/ ~p.ok
        THEN Outcome(cs, "ValidationError")
        ELSE IF d.ts \in Keys(cs.add)
             THEN Outcome(cs, "ValueError")
             ELSE Outcome(_canonicalize(
                            [cs EXCEPT !.add = DictSet(@, d.ts, p.props),
                                       !.remove = SelectSeq(@, LAMBDA x : x # d.ts)]),
                          "ok")

\* ChangeSet.add_day
add_day(cs, date, props) ==
    LET d == _to_timestamp(date)
        p == DayPropsLike(props)
    IN  IF ~d.ok \/ ~p.ok
        THEN Outcome(cs, "ValidationError")
        ELSE IF d.ts \in Keys(cs.add)
             THEN Outcome(cs, "ValueError")
             ELSE Outcome(_canonicalize([cs EXCEPT !.add = DictSet(@, d.ts, p.props)]),
                          "ok")

\* remove_day that refuses a date that is a key of add.
remove_day_rejects_added(cs, date) ==
    LET d == _to_timestamp(date)
    IN  IF ~d.ok
        THEN Outcome(cs, "ValidationError")
        ELSE IF d.ts \in Keys(cs.add)
             THEN Outcome(cs, "ValueError")
             ELSE Outcome(_canonicalize([cs EXCEPT !.remove = Append(@, d.ts)]), "ok")

\* remove_day that refuses a date that is in remove already.
remove_day_rejects_removed(cs, date) ==
    LET d == _to_timestamp(date)
    IN  IF ~d.ok
        THEN Outcome(cs, "ValidationError")
        ELSE IF d.ts \in Range(cs.remove)
             THEN Outcome(cs, "ValueError")
             ELSE Outcome(_canonicalize([cs EXCEPT !.remove = Append(@, d.ts)]), "ok")

\* ChangeSet.remove_day
remove_day(cs, date) ==
    LET d == _to_timestamp(date)
    IN  IF ~d.ok
        THEN Outcome(cs, "ValidationError")
        ELSE Outcome(_canonicalize([cs EXCEPT !.remove = Append(@, d.ts)]), "ok")

\* set_tags that stores the new tags in a new DateMeta, without the comment.
set_tags_drops_comment(cs, date, tags) ==
    LET d == _to_timestamp(date)
    IN  IF ~d.ok \/ ~Tags(tags)
        THEN Outcome(cs, "ValidationError")
        ELSE LET set == DateMeta_canonicalize(tags, None)
             IN  IF ~set.ok
                 THEN Outcome(cs, set.error)
                 ELSE Outcome([cs EXCEPT !.meta = IF DateMeta_len(set.meta) > 0
                                                  THEN DictSet(@, d.ts, set.meta)
                                                  ELSE DictPop(@, d.ts)],
                              "ok")

\* ChangeSet.set_tags
set_tags(cs, date, tags) ==
    LET d == _to_timestamp(date)
    IN  IF ~d.ok \/ ~Tags(tags)
        THEN Outcome(cs, "ValidationError")
        ELSE LET m0 == IF d.ts \in Keys(cs.meta)
                       THEN Get(cs.meta, d.ts)
                       ELSE DateMeta([tags |-> TagsInput("coll", <<>>),
                                      comment |-> None]).meta
                 tags_prev == TagsInput("coll", m0.tags)
                 set == DateMeta_canonicalize(tags, m0.comment)
                 m1 == IF set.ok
                       THEN set.meta
                       ELSE DateMeta_canonicalize(tags_prev, m0.comment).meta
             IN  Outcome([cs EXCEPT !.meta = IF DateMeta_len(m1) > 0
                                             THEN DictSet(@, d.ts, m1)
                                             ELSE DictPop(@, d.ts)],
                         IF set.ok THEN "ok" ELSE set.error)

TestIsNot(x, d) == x # d

\* clear_day that leaves remove as it is.
clear_day_keeps_remove(cs, date, include_meta) ==
    LET d == _to_timestamp(date)
    IN  IF ~d.ok
        THEN Outcome(cs, "ValidationError")
        ELSE Outcome(ChangeSet(DictPop(cs.add, d.ts),
                               cs.remove,
                               IF include_meta THEN DictPop(cs.meta, d.ts) ELSE cs.meta),
                     "ok")

\* ChangeSet.clear_day
clear_day(cs, date, include_meta) ==
    LET d == _to_timestamp(date)
    IN  IF ~d.ok
        THEN Outcome(cs, "ValidationError")
        ELSE Outcome(ChangeSet(DictPop(cs.add, d.ts),
                               SelectSeq(cs.remove, LAMBDA x : TestIsNot(x, d.ts)),
                               IF include_meta THEN DictPop(cs.meta, d.ts) ELSE cs.meta),
                     "ok")

\* clear that leaves remove as it is.
clear_keeps_remove(cs, include_meta) ==
    Outcome(ChangeSet(<<>>, cs.remove, IF include_meta THEN <<>> ELSE cs.meta), "ok")

\* ChangeSet.clear
clear(cs, include_meta) ==
    Outcome(ChangeSet(<<>>, <<>>, IF include_meta THEN <<>> ELSE cs.meta), "ok")

\* all_days that never looks at meta.
all_days_ignores_include_meta(cs, include_meta) ==
    SortedDates(Keys(cs.add) \cup Range(cs.remove))

\* ChangeSet.all_days: the sorted tuple of the union of the keys of add, the
\* elements of remove and, with include_meta, the keys of meta.
all_days(cs, include_meta) ==
    SortedDates(Keys(cs.add) \cup Range(cs.remove)
                \cup (IF include_meta THEN Keys(cs.meta) ELSE {}))

\* ---------------------------------------------------------- construction
\* Comment inputs: None, or a string given as its characters.
CommentInputs == {None, Some(<<" ", "c", " ">>), Some(<<" ">>)}

\* The values of the meta mapping of a construction input.
MetaInputs ==
    {[tags |-> t, comment |-> c] :
        t \in {TagsInput("none", <<>>), TagsInput("coll", <<MaxTag, 1, MaxTag>>),
               TagsInput("coll", <<1, 0>>), TagsInput("float", <<>>)},
        c \in CommentInputs}

\* The date keys of a construction input are strings.
MappingDates == {d \in DateInputs : d.kind \in {"str", "bad"}}

\* A dict has each of its keys once.
DistinctKeys(s) == \A i, j \in DOMAIN s : s[i].date = s[j].date => i = j

\* The sequences over S of length n.
SeqsOfLen(S, n) == [1..n -> S]

\* The mappings {'add': ..., 'remove': ..., 'meta': ...} with n entries in all;
\* extra says that the mapping has a key that is no field.
MappingsOfLen(n) ==
    UNION {UNION {
        {[add |-> a, remove |-> r, meta |-> m, extra |-> FALSE] :
            a \in {x \in SeqsOfLen([date : MappingDates, value : PropsInputs], ka) :
                      DistinctKeys(x)},
            r \in SeqsOfLen(MappingDates, kr),
            m \in {x \in SeqsOfLen([date : MappingDates, value : MetaInputs], n - ka - kr) :
                      DistinctKeys(x)}} :
        kr \in 0..(n - ka)} : ka \in 0..n}

Mappings ==
    UNION {MappingsOfLen(n) : n \in 0..MaxInit}
    \cup {[add |-> <<>>, remove |-> <<>>, meta |-> <<>>, extra |-> TRUE]}

\* Validation of a Dict[TimestampLike, V] field: every key goes through
\* _to_timestamp, every value through the validator of V; the validated
\* entries are put into a new dict in the order of the input.
RECURSIVE DictOf(_)
DictOf(entries) ==
    IF entries = <<>>
    THEN <<>>
    ELSE LET n == Len(entries)
         IN  DictSet(DictOf(SubSeq(entries, 1, n - 1)), entries[n].date, entries[n].value)

\* ChangeSet.model_validate(mapping): the three fields are validated, then
\* _canonicalize runs. The TypeError of a DateMeta whose tags do not sort is
\* raised as it is; every other failure is collected into a ValidationError.
model_validate(m) ==
    LET addOk == \A i \in DOMAIN m.add :
                    _to_timestamp(m.add[i].date).ok /\ DayPropsLike(m.add[i].value).ok
        removeOk == \A i \in DOMAIN m.remove : _to_timestamp(m.remove[i]).ok
        metaOk == \A i \in DOMAIN m.meta :
                    _to_timestamp(m.meta[i].date).ok /\ DateMeta(m.meta[i].value).ok
        raised == \E i \in DOMAIN m.meta : DateMeta(m.meta[i].value).error = "TypeError"
    IN  IF raised
        THEN Outcome(ChangeSet(<<>>, <<>>, <<>>), "TypeError")
        ELSE IF m.extra \/ ~addOk \/ ~removeOk \/ ~metaOk
        THEN Outcome(ChangeSet(<<>>, <<>>, <<>>), "ValidationError")
        ELSE Outcome(
                _canonicalize(ChangeSet(
                    DictOf([i \in DOMAIN m.add |->
                              [date |-> _to_timestamp(m.add[i].date).ts,
                               value |-> DayPropsLike(m.add[i].value).props]]),
                    [i \in DOMAIN m.remove |-> _to_timestamp(m.remove[i]).ts],
                    DictOf([i \in DOMAIN m.meta |->
                              [date |-> _to_timestamp(m.meta[i].date).ts,
                               value |-> DateMeta(m.meta[i].value).meta]]))),
                "ok")

\* ChangeSet.model_dump(): the nested mapping of add, remove and meta in their
\* iteration order; a date is dumped as the pd.Timestamp it is, day properties
\* as the mapping of their fields (a time as dt.time, no time key for
\* DayProps), a DateMeta as the mapping of tags and comment.
model_dump(cs) ==
    [add |-> [i \in DOMAIN cs.add |->
                [date |-> [kind |-> "ts", day |-> cs.add[i].date[1],
                           hour |-> cs.add[i].date[2]],
                 value |-> PropsInput(
                    cs.add[i].value.type,
                    Some(cs.add[i].value.name),
                    IF cs.add[i].value.time = None
                    THEN None
                    ELSE Some([kind |-> "time", form |-> "",
                               t |-> cs.add[i].value.time[1]]),
                    FALSE)]],
     remove |-> [i \in DOMAIN cs.remove |->
                [kind |-> "ts", day |-> cs.remove[i][1], hour |-> cs.remove[i][2]]],
     meta |-> [i \in DOMAIN cs.meta |->
                [date |-> [kind |-> "ts", day |-> cs.meta[i].date[1],
                           hour |-> cs.meta[i].date[2]],
                 value |-> [tags |-> TagsInput("coll", cs.meta[i].value.tags),
                            comment |-> cs.meta[i].value.comment]]],
     extra |-> FALSE]

\* ------------------------------------------------------------ behaviours
\* What is recorded of the last call: the operation, how it ended ("ok" or the
\* error raised) and whether the changeset after it differs from the one
\* before it.
Called(op, r, before) ==
    [op |-> op, result |-> r.result, changed |-> r.cs # before]

\* The changeset becomes cs.
Becomes(cs) == add' = cs.add /\ remove' = cs.remove /\ meta' = cs.meta

\* A changeset is constructed: ChangeSet() or ChangeSet.model_validate(m).
Init ==
    /\ \E m \in Mappings :
          /\ model_validate(m).result = "ok"
          /\ add = model_validate(m).cs.add
          /\ remove = model_validate(m).cs.remove
          /\ meta = model_validate(m).cs.meta
    /\ last = [op |-> "model_validate", result |-> "ok", changed |-> FALSE]
    /\ target = ChangeSet(<<>>, <<>>, <<>>)
    /\ todo = {}

AddDay ==
    \E date \in DateInputs, props \in PropsInputs :
        LET r == add_day(self, date, props)
        IN  /\ __len__(r.cs) <= MaxLen
            /\ Becomes(r.cs)
            /\ last' = Called("add_day", r, self)
            /\ UNCHANGED <<target, todo>>

RemoveDay ==
    \E date \in DateInputs :
        LET r == remove_day(self, date)
        IN  /\ __len__(r.cs) <= MaxLen
            /\ Becomes(r.cs)
            /\ last' = Called("remove_day", r, self)
            /\ UNCHANGED <<target, todo>>

SetTags ==
    \E date \in DateInputs, tags \in TagsInputs :
        LET r == set_tags(self, date, tags)
        IN  /\ __len__(r.cs) <= MaxLen
            /\ Becomes(r.cs)
            /\ last' = Called("set_tags", r, self)
            /\ UNCHANGED <<target, todo>>

ClearDay ==
    \E date \in DateInputs, include_meta \in BOOLEAN :
        LET r == clear_day(self, date, include_meta)
        IN  /\ Becomes(r.cs)
            /\ last' = Called("clear_day", r, self)
            /\ UNCHANGED <<target, todo>>

Clear ==
    \E include_meta \in BOOLEAN :
        LET r == clear(self, include_meta)
        IN  /\ Becomes(r.cs)
            /\ last' = Called("clear", r, self)
            /\ UNCHANGED <<target, todo>>

\* all_days is a query: it reads add, remove and meta and assigns nothing;
\* the tuple it returns is recorded with the call.
AllDays ==
    \E include_meta \in BOOLEAN :
        /\ last' = [op |-> "all_days", result |-> "ok", changed |-> FALSE,
                    include_meta |-> include_meta,
                    returned |-> all_days(self, include_meta)]
        /\ UNCHANGED <<add, remove, meta, target, todo>>

Next == AddDay \/ RemoveDay \/ SetTags \/ ClearDay \/ Clear \/ AllDays

Spec == Init /\ [][Next]_vars

\* ------------------------------------------- building from an empty changeset
\* The valid mappings whose meta values carry tags only.
BuildMappingsOfLen(n) ==
    UNION {UNION {
        {[add |-> a, remove |-> r, meta |-> m, extra |-> FALSE] :
            a \in {x \in SeqsOfLen([date : {d \in MappingDates : d.kind = "str"},
                                    value : ValidPropsInputs], ka) : DistinctKeys(x)},
            r \in SeqsOfLen({d \in MappingDates : d.kind = "str"}, kr),
            m \in {x \in SeqsOfLen(
                            [date : {d \in MappingDates : d.kind = "str"},
                             value : {[tags |-> t, comment |-> None] :
                                        t \in {TagsInput("coll", <<1>>),
                                               TagsInput("coll", <<MaxTag, 1, MaxTag>>)}}],
                            n - ka - kr) : DistinctKeys(x)}} :
        kr \in 0..(n - ka)} : ka \in 0..n}

BuildMappings == UNION {BuildMappingsOfLen(n) : n \in 0..MaxInit}

Call(op, idx, date, props, tags) ==
    [op |-> op, idx |-> idx, date |-> date, props |-> props, tags |-> tags]

\* One call per entry of the mapping: add_day for an add entry, remove_day for
\* a remove element, set_tags for the tags of a meta entry.
Calls(m) ==
    {Call("add_day", i, m.add[i].date, m.add[i].value, TagsInput("none", <<>>)) :
        i \in DOMAIN m.add}
    \cup {Call("remove_day", i, m.remove[i], PropsInput("", None, None, FALSE),
               TagsInput("none", <<>>)) : i \in DOMAIN m.remove}
    \cup {Call("set_tags", i, m.meta[i].date, PropsInput("", None, None, FALSE),
               m.meta[i].value.tags) : i \in DOMAIN m.meta}

\* ChangeSet(), next to the changeset that model_validate makes of a mapping
\* and the calls that are to build the same changeset.
InitBuild ==
    /\ \E m \in BuildMappings :
          /\ model_validate(m).result = "ok"
          /\ target = model_validate(m).cs
          /\ todo = Calls(m)
    /\ add = <<>>
    /\ remove = <<>>
    /\ meta = <<>>
    /\ last = [op |-> "ChangeSet", result |-> "ok", changed |-> FALSE]

BuildAddDay ==
    \E c \in todo :
        /\ c.op = "add_day"
        /\ LET r == add_day(self, c.date, c.props)
           IN  Becomes(r.cs) /\ last' = Called("add_day", r, self)
        /\ todo' = todo \ {c}
        /\ UNCHANGED target

BuildRemoveDay ==
    \E c \in todo :
        /\ c.op = "remove_day"
        /\ LET r == remove_day(self, c.date)
           IN  Becomes(r.cs) /\ last' = Called("remove_day", r, self)
        /\ todo' = todo \ {c}
        /\ UNCHANGED target

BuildSetTags ==
    \E c \in todo :
        /\ c.op = "set_tags"
        /\ LET r == set_tags(self, c.date, c.tags)
           IN  Becomes(r.cs) /\ last' = Called("set_tags", r, self)
        /\ todo' = todo \ {c}
        /\ UNCHANGED target

NextBuild == BuildAddDay \/ BuildRemoveDay \/ BuildSetTags

SpecBuild == InitBuild /\ [][NextBuild]_vars

\* ================================================================ claims
\* The date inputs that _to_timestamp converts.
ValidDateInputs == {d \in DateInputs : _to_timestamp(d).ok}

\* C1: add_day(d, p2) for a date d that is already a key of add fails with an
\* error, whatever the day properties p2, and leaves add, remove and meta as
\* they were.
C1_DuplicateAddFails ==
    \A date \in ValidDateInputs, props \in PropsInputs :
        _to_timestamp(date).ts \in Keys(add) =>
            LET r == add_day(self, date, props)
            IN  r.result # "ok" /\ r.cs = self

\* A duplicate add_day has been rejected with ValueError and the day added
\* first is still there.
C1_Witness ==
    /\ last.op = "add_day"
    /\ last.result = "ValueError"
    /\ add # <<>>

\* C2: a mutating operation that fails with an error leaves add, remove and
\* meta, their iteration order included, as they were before the call.
C2_AllOrNothing == last.result # "ok" => ~last.changed

\* C3: remove is strictly ascending by date (sorted, no duplicates), and
\* calling remove_day(d) twice leaves exactly one d in remove.
C3_RemoveStrictlyAscending ==
    /\ \A i, j \in DOMAIN remove : i < j => Lt(remove[i], remove[j])
    /\ \A date \in ValidDateInputs :
          LET twice == remove_day(remove_day(self, date).cs, date).cs.remove
          IN  Cardinality({i \in DOMAIN twice : twice[i] = _to_timestamp(date).ts}) = 1

\* remove_day has run on a date that was in remove already, and remove holds
\* two dates.
C3_Witness ==
    /\ last.op = "remove_day"
    /\ last.result = "ok"
    /\ ~last.changed
    /\ Len(remove) = 2

\* C4: no date of meta maps to a DateMeta of size 0.
C4_NoEmptyMeta == \A i \in DOMAIN meta : DateMeta_len(meta[i].value) > 0

\* C5: a successful set_tags(d, t) leaves meta[d].tags the ascending
\* duplicate-free list of the elements of t when t is not empty; when t is
\* empty or None, d is absent from meta if it had no comment and stays in meta
\* with empty tags if it had one.
C5_SetTagsCanonical ==
    \A date \in ValidDateInputs, tags \in TagsInputs :
        LET r == set_tags(self, date, tags)
            d == _to_timestamp(date).ts
            had_comment == d \in Keys(meta) /\ Get(meta, d).comment # None
        IN  r.result = "ok" =>
                IF tags.elems # <<>>
                THEN /\ d \in Keys(r.cs.meta)
                     /\ LET t == Get(r.cs.meta, d).tags
                        IN  /\ Range(t) = Range(tags.elems)
                            /\ \A i, j \in DOMAIN t : i < j => t[i] < t[j]
                ELSE IF had_comment
                     THEN d \in Keys(r.cs.meta) /\ Get(r.cs.meta, d).tags = <<>>
                     ELSE d \notin Keys(r.cs.meta)

\* set_tags has stored the tags of ['foo', 'bar', 'foo'] for one date, next to
\* a date that has a comment and no tags.
C5_Witness ==
    /\ last.op = "set_tags"
    /\ last.result = "ok"
    /\ last.changed
    /\ \E i \in DOMAIN meta : meta[i].value.tags = <<1, MaxTag>>
    /\ \E i \in DOMAIN meta : meta[i].value.tags = <<>> /\ meta[i].value.comment # None

\* C6: the changeset built from an empty ChangeSet by one call per entry of a
\* valid mapping, in any order, is equal (==) to model_validate of the mapping.
C6_BuiltEqualsValidated == todo = {} => __eq__(self, target)

\* C7: every date is normalized to calendar-day granularity before it is used
\* as a key of add or meta or as an element of remove, so that no two keys fall
\* on the same calendar day.
C7_DatesAtDayGranularity ==
    /\ \A k \in Keys(add) \cup Range(remove) \cup Keys(meta) : k[2] = 0
    /\ \A k1, k2 \in Keys(add) : DayOf(k1) = DayOf(k2) => k1 = k2
    /\ \A k1, k2 \in Range(remove) : DayOf(k1) = DayOf(k2) => k1 = k2
    /\ \A k1, k2 \in Keys(meta) : DayOf(k1) = DayOf(k2) => k1 = k2

\* C8: add_day(d, p) with d not in add followed by remove_day(d) both succeed,
\* for each of the five day types, and leave add[d] == p and d in remove; the
\* date then counts twice in len.
C8_AddThenRemoveCoexist ==
    /\ {p.type : p \in ValidPropsInputs} = DayType
    /\ \A date \in ValidDateInputs, props \in ValidPropsInputs :
          LET d == _to_timestamp(date).ts
              r1 == add_day(self, date, props)
              r2 == remove_day(r1.cs, date)
          IN  d \notin Keys(add) =>
                /\ r1.result = "ok"
                /\ r2.result = "ok"
                /\ d \in Keys(r2.cs.add)
                /\ Get(r2.cs.add, d).type = props.type
                /\ Get(r2.cs.add, d).name = props.name[1]
                /\ (Get(r2.cs.add, d).time # None) = (props.time # None)
                /\ d \in Range(r2.cs.remove)
                /\ __len__(r2.cs) = Cardinality(Keys(r2.cs.add))
                                    + Cardinality(Range(r2.cs.remove))
                                    + Cardinality(Keys(r2.cs.meta))

\* remove_day has put a date into remove that is a key of add.
C8_Witness ==
    /\ last.op = "remove_day"
    /\ last.result = "ok"
    /\ last.changed
    /\ Keys(add) \cap Range(remove) # {}

\* C9: no date is at the same time a key of add and an element of remove.
C9_AddRemoveDisjoint == Keys(add) \cap Range(remove) = {}

\* C10: remove_day(d) with a valid date never fails, and a second
\* remove_day(d) changes nothing.
C10_RemoveDayIdempotent ==
    \A date \in ValidDateInputs :
        LET r1 == remove_day(self, date)
            r2 == remove_day(r1.cs, date)
        IN  /\ r1.result = "ok"
            /\ r2.result = "ok"
            /\ r2.cs = r1.cs

\* remove_day has run on a date that was in remove already and is a key of add,
\* and has changed nothing.
C10_Witness ==
    /\ last.op = "remove_day"
    /\ last.result = "ok"
    /\ ~last.changed
    /\ Keys(add) \cap Range(remove) # {}

\* C11: clear_day(d, include_meta) with a valid date succeeds; afterwards d is
\* no key of add and no element of remove, d is gone from meta when
\* include_meta is true and meta is untouched when it is false, and the
\* entries of add, remove and meta for the other dates are as before, in the
\* same order.
C11_ClearDayFrame ==
    \A date \in ValidDateInputs, include_meta \in BOOLEAN :
        LET d == _to_timestamp(date).ts
            r == clear_day(self, date, include_meta)
        IN  /\ r.result = "ok"
            /\ d \notin Keys(r.cs.add)
            /\ d \notin Range(r.cs.remove)
            /\ r.cs.add = SelectSeq(add, LAMBDA e : e.date # d)
            /\ r.cs.remove = SelectSeq(remove, LAMBDA x : x # d)
            /\ IF include_meta
               THEN /\ d \notin Keys(r.cs.meta)
                    /\ r.cs.meta = SelectSeq(meta, LAMBDA e : e.date # d)
               ELSE r.cs.meta = meta

\* clear_day has taken the only date out of remove, and a day that was added
\* and a metadata entry are left.
C11_Witness ==
    /\ last.op = "clear_day"
    /\ last.result = "ok"
    /\ last.changed
    /\ add # <<>>
    /\ remove = <<>>
    /\ meta # <<>>

\* C12: clear(include_meta) leaves add and remove empty; with include_meta
\* false meta is unchanged, with include_meta true meta is empty and the
\* changeset equals ChangeSet() and has length 0.
C12_ClearFrame ==
    \A include_meta \in BOOLEAN :
        LET r == clear(self, include_meta)
            fresh == model_validate([add |-> <<>>, remove |-> <<>>, meta |-> <<>>,
                                     extra |-> FALSE])
        IN  /\ r.result = "ok"
            /\ r.cs.add = <<>>
            /\ r.cs.remove = <<>>
            /\ ~include_meta => r.cs.meta = meta
            /\ include_meta =>
                  /\ r.cs.meta = <<>>
                  /\ fresh.result = "ok"
                  /\ __eq__(r.cs, fresh.cs)
                  /\ __len__(r.cs) = 0

\* clear has emptied add or remove and has left two metadata entries.
C12_Witness ==
    /\ last.op = "clear"
    /\ last.result = "ok"
    /\ last.changed
    /\ add = <<>>
    /\ remove = <<>>
    /\ Len(meta) = 2

\* C13: all_days(include_meta=False) is the strictly ascending sequence of
\* exactly the dates that are keys of add or elements of remove, and
\* all_days(include_meta=True) the strictly ascending sequence of exactly the
\* dates of add, remove or meta; the call leaves the changeset as it is.
C13_AllDaysSortedUnion ==
    /\ \A include_meta \in BOOLEAN :
          LET s == all_days(self, include_meta)
          IN  /\ \A i, j \in DOMAIN s : i < j => Lt(s[i], s[j])
              /\ Range(s) = Keys(add) \cup Range(remove)
                            \cup (IF include_meta THEN Keys(meta) ELSE {})
    /\ last.op = "all_days" =>
          /\ ~last.changed
          /\ last.returned = all_days(self, last.include_meta)

\* all_days(include_meta=True) has returned two dates of a changeset in
\* which one date is both added and removed and another has metadata only.
C13_Witness ==
    /\ last.op = "all_days"
    /\ last.include_meta
    /\ Len(last.returned) = 2
    /\ Keys(add) \cap Range(remove) # {}
    /\ Keys(meta) \ (Keys(add) \cup Range(remove)) # {}

\* C14: dumping a changeset to the nested mapping of add, remove and meta and
\* validating that mapping gives a changeset equal (==) to the dumped one, in
\* every state reachable by construction and the operations.
C14_DumpValidateRoundTrip ==
    LET parsed == model_validate(model_dump(self))
    IN  parsed.result = "ok" /\ __eq__(parsed.cs, self)

\* The shape violations of day properties: a type that is none of the five
\* enumerators, no name, a key that is no field, no time for special_open or
\* special_close, a time for holiday, monthly_expiry or quarterly_expiry.
PropsShapeViolation(p) ==
    \/ p.type \notin {"holiday", "special_open", "special_close", "monthly_expiry",
                      "quarterly_expiry"}
    \/ p.name = None
    \/ p.extra
    \/ p.type \in {"special_open", "special_close"} /\ p.time = None
    \/ p.type \in {"holiday", "monthly_expiry", "quarterly_expiry"} /\ p.time # None

\* The shape violations of a construction mapping: an unknown top-level key, a
\* date that is no date, day properties that violate the shape.
MappingShapeViolation(m) ==
    \/ m.extra
    \/ \E i \in DOMAIN m.add :
          m.add[i].date.kind = "bad" \/ PropsShapeViolation(m.add[i].value)
    \/ \E i \in DOMAIN m.remove : m.remove[i].kind = "bad"
    \/ \E i \in DOMAIN m.meta : m.meta[i].date.kind = "bad"

\* Construction from a mapping that violates the shape fails with a
\* ValidationError and produces no changeset.
ConstructionRejectsShapeViolations ==
    \A m \in Mappings :
        MappingShapeViolation(m) =>
            /\ model_validate(m).result = "ValidationError"
            /\ model_validate(m).cs = ChangeSet(<<>>, <<>>, <<>>)

\* C15: construction from a mapping and add_day fail with a validation error
\* and produce or insert nothing when the input violates the shape, each of
\* the listed violations being among the inputs; and each value of add has a
\* time exactly when its type is special_open or special_close.
C15_ShapeViolationsRejected ==
    /\ ConstructionRejectsShapeViolations
    /\ \E p \in PropsInputs : p.type \notin DayType
    /\ \E p \in PropsInputs : p.name = None
    /\ \E p \in PropsInputs : p.extra
    /\ \E p \in PropsInputs : p.type \in DayPropsWithTimeTypes /\ p.time = None
    /\ \E p \in PropsInputs : p.type \in DayPropsTypes /\ p.time # None
    /\ \A date \in DateInputs, props \in PropsInputs :
          (date.kind = "bad" \/ PropsShapeViolation(props)) =>
              LET r == add_day(self, date, props)
              IN  r.result = "ValidationError" /\ r.cs = self
    /\ \A i \in DOMAIN add :
          (add[i].value.time # None)
              <=> add[i].value.type \in {"special_open", "special_close"}

\* C16: each DateMeta stored in meta is canonical: its tags are strictly
\* ascending, its comment is absent or a non-empty string without leading or
\* trailing whitespace, and its size is the number of its tags plus 1 if it
\* has a comment.
C16_StoredMetaCanonical ==
    \A i \in DOMAIN meta :
        LET m == meta[i].value
        IN  /\ \A j, k \in DOMAIN m.tags : j < k => m.tags[j] < m.tags[k]
            /\ m.comment # None =>
                  /\ m.comment[1] # <<>>
                  /\ Head(m.comment[1]) # " "
                  /\ m.comment[1][Len(m.comment[1])] # " "
            /\ DateMeta_len(m) = Cardinality(Range(m.tags))
                                 + (IF m.comment = None THEN 0 ELSE 1)

\* set_tags has given tags to a date whose comment was constructed from a
\* string with whitespace around it; the entry has size 3.
C16_Witness ==
    /\ last.op = "set_tags"
    /\ last.result = "ok"
    /\ last.changed
    /\ \E i \in DOMAIN meta :
          /\ meta[i].value.tags = <<1, MaxTag>>
          /\ meta[i].value.comment = Some(<<"c">>)
          /\ DateMeta_len(meta[i].value) = 3

\* C17: ChangeSet() has empty add, remove and meta and length 0, and the
\* length of a changeset is the number of keys of add plus the number of
\* elements of remove plus the number of keys of meta, a date counting once
\* for each collection it is in.
C17_LenCountsEntries ==
    /\ LET fresh == model_validate([add |-> <<>>, remove |-> <<>>, meta |-> <<>>,
                                    extra |-> FALSE])
       IN  /\ fresh.result = "ok"
           /\ fresh.cs.add = <<>> /\ fresh.cs.remove = <<>> /\ fresh.cs.meta = <<>>
           /\ __len__(fresh.cs) = 0
    /\ __len__(self) = Cardinality(Keys(add)) + Cardinality(Range(remove))
                       + Cardinality(Keys(meta))

\* One date is a key of add, an element of remove and a key of meta, and the
\* length is 3 after set_tags.
C17_Witness ==
    /\ last.op = "set_tags"
    /\ last.result = "ok"
    /\ last.changed
    /\ Keys(add) \cap Range(remove) \cap Keys(meta) # {}
    /\ __len__(self) = 3

\* C18: after every successful add_day, remove_day, set_tags, clear_day and
\* clear, meta iterates in strictly ascending date order.
C18_MetaAscendingAfterOperation ==
    (last.op \in {"add_day", "remove_day", "set_tags", "clear_day", "clear"}
     /\ last.result = "ok")
        => \A i, j \in DOMAIN meta : i < j => Lt(meta[i].date, meta[j].date)

\* C19: after every successful add_day, remove_day, set_tags, clear_day and
\* clear, add iterates in strictly ascending date order, each date being a key
\* once; add_day puts a date that is earlier than the keys of add before them.
C19_AddAscendingUniqueKeys ==
    /\ \A i, j \in DOMAIN add : i < j => Lt(add[i].date, add[j].date)
    /\ \A date \in ValidDateInputs, props \in ValidPropsInputs :
          LET a == add_day(self, date, props).cs.add
          IN  \A i, j \in DOMAIN a : i < j => Lt(a[i].date, a[j].date)

\* add_day has run with success and add holds three dates.
C19_Witness ==
    /\ last.op = "add_day"
    /\ last.result = "ok"
    /\ last.changed
    /\ Len(add) = 3

\* C20: a successful set_tags(d, t) leaves add and remove as they were, leaves
\* the DateMeta of every other date as it was, changes the keys of meta at most
\* by d, and keeps the comment of d.
C20_SetTagsFrame ==
    \A date \in ValidDateInputs, tags \in TagsInputs :
        LET d == _to_timestamp(date).ts
            r == set_tags(self, date, tags)
        IN  r.result = "ok" =>
              /\ r.cs.add = add
              /\ r.cs.remove = remove
              /\ Keys(r.cs.meta) \ {d} = Keys(meta) \ {d}
              /\ \A k \in Keys(meta) \ {d} : Get(r.cs.meta, k) = Get(meta, k)
              /\ (d \in Keys(meta) /\ Get(meta, d).comment # None) =>
                    /\ d \in Keys(r.cs.meta)
                    /\ Get(r.cs.meta, d).comment = Get(meta, d).comment
              /\ (d \in Keys(r.cs.meta)
                  /\ ~(d \in Keys(meta) /\ Get(meta, d).comment # None)) =>
                    Get(r.cs.meta, d).comment = None

\* set_tags has given one tag to a date that has a comment, next to a day in
\* add and the metadata of another date.
C20_Witness ==
    /\ last.op = "set_tags"
    /\ last.result = "ok"
    /\ last.changed
    /\ Len(add) = 1
    /\ Len(meta) = 2
    /\ \E i \in DOMAIN meta :
          meta[i].value.tags = <<1>> /\ meta[i].value.comment = Some(<<"c">>)

\* C21: a successful add_day(d, p) with d not in add leaves add with the
\* entries it had plus the one entry d -> p, and a successful remove_day(d)
\* leaves remove with the dates it had plus d; in both cases the other two
\* collections hold the same dates with the same values as before.
C21_AddRemoveFrame ==
    /\ \A date \in ValidDateInputs, props \in ValidPropsInputs :
          LET d == _to_timestamp(date).ts
              r == add_day(self, date, props)
          IN  (d \notin Keys(add) /\ r.result = "ok") =>
                /\ Len(r.cs.add) = Len(add) + 1
                /\ Range(r.cs.add) \ Range(add) =
                      {[date |-> d,
                        value |-> [type |-> props.type, name |-> props.name[1],
                                   time |-> IF props.time = None
                                            THEN None
                                            ELSE Some(_to_time(props.time[1]).time)]]}
                /\ Range(add) \subseteq Range(r.cs.add)
                /\ Range(r.cs.remove) = Range(remove)
                /\ Len(r.cs.remove) = Len(remove)
                /\ Range(r.cs.meta) = Range(meta)
                /\ Len(r.cs.meta) = Len(meta)
    /\ \A date \in ValidDateInputs :
          LET d == _to_timestamp(date).ts
              r == remove_day(self, date)
          IN  r.result = "ok" =>
                /\ Range(r.cs.remove) = Range(remove) \cup {d}
                /\ Len(r.cs.remove) = Cardinality(Range(remove) \cup {d})
                /\ Range(r.cs.add) = Range(add)
                /\ Len(r.cs.add) = Len(add)
                /\ Range(r.cs.meta) = Range(meta)
                /\ Len(r.cs.meta) = Len(meta)

\* add_day has added the only day of add to a changeset that holds a date to
\* remove and a metadata entry.
C21_Witness ==
    /\ last.op = "add_day"
    /\ last.result = "ok"
    /\ last.changed
    /\ Len(add) = 1
    /\ Len(remove) = 1
    /\ Len(meta) = 1

====
